---- MODULE Spec2Model ----
(***************************************************************************)
(* A model of stable_vector<T, ChunkSize> (src/stable_vector.h): a vector  *)
(* of owning handles to fixed-capacity chunks.  Chunks live on a heap of   *)
(* ChunkIds; a container is its handle list m_chunks.  T is int.           *)
(***************************************************************************)
EXTENDS Integers, Sequences, FiniteSets, TLC

\* The ChunkSize template argument (a power of two), as instantiated by
\* TEST(stable_vector_multiple_chunks, reference).
ChunkSize == 2

\* Bounds of the model.
MaxVal == 1             \* element values are 0..MaxVal
MaxChunks == 3          \* heap capacity, in chunks
WordBits == 5           \* width of size_type / difference_type
MaxStack == 3           \* frames the call stack has room for

\* Two container objects, and the by-value parameter v of operator=, which
\* lives only inside a call.
Containers == {"a", "b"}
Param == "v"
Objects == {Param} \cup Containers
Values == 0..MaxVal
Word == 2 ^ WordBits

VARIABLES
    alive,      \* alive[c]: the object c is constructed and not destroyed
    m_chunks,   \* m_chunks[c]: the handle list of c, a sequence of ChunkIds
    heap,       \* heap[id]: the elements of the chunk at address id
    appended,   \* history: the values appended to c, in order of insertion
    last,       \* the last call made: its name and what it returned
    it,         \* a cursor object: its m_container and m_index
    loop,       \* a traversal by it: where it stands and what it has read
    stack       \* the frames of a call of a const overload, innermost last

\* The cursor, the traversal and the call stack: no member function of the
\* container writes them.
aux == <<it, loop, stack>>

vars == <<alive, m_chunks, heap, appended, last, it, loop, stack>>

\* The addresses of the heap: MaxChunks of them, or one more where two
\* containers of two chunks each are needed.
ChunkIds == DOMAIN heap

Range(s) == {s[k] : k \in 1..Len(s)}
Back(s) == s[Len(s)]
Min(S) == CHOOSE x \in S : \A y \in S : x <= y

\* The value of a difference_type holding the size_type value x.
ToSigned(x) == IF x % Word >= Word \div 2 THEN (x % Word) - Word ELSE x % Word

\* A call and its result: nothing, a bool, an exception or a reference.
Void == [kind |-> "void", loc |-> <<0, 0>>]
Call(op) == [op |-> op, ret |-> Void]

----------------------------------------------------------------------------
\* The heap.  A state of the storage is a record [m |-> handle lists, h |-> heap].

Allocated(m) == UNION {Range(m[c]) : c \in Objects}
FreeIds(m) == ChunkIds \ Allocated(m)
CanAllocate(n) == Cardinality(FreeIds(m_chunks)) >= n

\* std::make_unique<chunk_type>(): the address of a new, empty chunk.
make_unique(s) == Min(FreeIds(s.m))

\* The destructor of a handle list: its chunks return to the heap.
Release(h, ids) == [id \in ChunkIds |-> IF id \in ids THEN <<>> ELSE h[id]]

Now == [m |-> m_chunks, h |-> heap]

----------------------------------------------------------------------------
\* Observers.

emptyOf(s, c) == Len(s.m[c]) = 0

\* A slip: size() counts every chunk as full and adds the last one again.
sizeOf_all(s, c) ==
    IF emptyOf(s, c) THEN 0
    ELSE Len(s.m[c]) * ChunkSize + Len(s.h[Back(s.m[c])])

sizeOf(s, c) ==
    IF emptyOf(s, c) THEN 0
    ELSE (Len(s.m[c]) - 1) * ChunkSize + Len(s.h[Back(s.m[c])])
capacityOf(s, c) == Len(s.m[c]) * ChunkSize

empty(c) == emptyOf(Now, c)
size(c) == sizeOf(Now, c)
capacity(c) == capacityOf(Now, c)

\* operator[](i): the address of (*m_chunks[i / ChunkSize])[i % ChunkSize],
\* as <<chunk, offset>>.  Chunk 0 stands for an index past the handle list.
IndexOf(s, c, i) ==
    IF i \div ChunkSize < Len(s.m[c])
    THEN <<s.m[c][(i \div ChunkSize) + 1], i % ChunkSize>>
    ELSE <<0, i % ChunkSize>>
Index(c, i) == IndexOf(Now, c, i)

\* An address holds a constructed element.
LiveIn(s, a) == a[1] \in ChunkIds /\ a[2] < Len(s.h[a[1]])
Live(a) == LiveIn(Now, a)
Deref(a) == heap[a[1]][a[2] + 1]

----------------------------------------------------------------------------
\* Growth.

\* A slip: the new handle goes to the front of the handle list.
add_chunk_front(s, c) ==
    [m |-> [s.m EXCEPT ![c] = <<make_unique(s)>> \o @],
     h |-> [s.h EXCEPT ![make_unique(s)] = <<>>]]

add_chunk(s, c) ==
    [m |-> [s.m EXCEPT ![c] = Append(@, make_unique(s))],
     h |-> [s.h EXCEPT ![make_unique(s)] = <<>>]]

\* A slip: the last chunk counts as full one element early.
NeedsChunk_early(s, c) ==
    Len(s.m[c]) = 0 \/ Len(s.h[Back(s.m[c])]) >= ChunkSize - 1

NeedsChunk(s, c) == Len(s.m[c]) = 0 \/ Len(s.h[Back(s.m[c])]) = ChunkSize

last_chunk(s, c) == IF NeedsChunk(s, c) THEN add_chunk(s, c) ELSE s

\* A slip: the chunk takes the new element at its front.
chunk_push_front(s, id, t) == [s EXCEPT !.h[id] = <<t>> \o @]

\* chunk_type::push_back / emplace_back on the chunk at address id.
chunk_push_back(s, id, t) == [s EXCEPT !.h[id] = Append(@, t)]

push_back_on(s, c, t) ==
    LET s1 == last_chunk(s, c) IN chunk_push_back(s1, Back(s1.m[c]), t)

\* A slip: the loop of reserve tests i >= 0.
RECURSIVE reserve_steps_ge(_)
reserve_steps_ge(d) == IF d >= 0 THEN 1 + reserve_steps_ge(ToSigned(d - ChunkSize)) ELSE 0

\* The for loop of reserve: the number of times its body runs when i starts
\* as the difference_type value d.
RECURSIVE reserve_steps(_)
reserve_steps(d) == IF d > 0 THEN 1 + reserve_steps(ToSigned(d - ChunkSize)) ELSE 0

RECURSIVE add_chunks(_, _, _)
add_chunks(s, c, n) == IF n = 0 THEN s ELSE add_chunks(add_chunk(s, c), c, n - 1)

reserve_on(s, c, new_capacity) ==
    LET initial_capacity == capacityOf(s, c)
    IN  add_chunks(s, c, reserve_steps(ToSigned(new_capacity - initial_capacity)))

----------------------------------------------------------------------------
\* Copy, move, swap and destruction of the handle list.

\* A slip: the copy takes the handles of the source instead of cloning chunks.
copy_loop_shared(s, c, chunks) == [s EXCEPT !.m[c] = @ \o chunks]

RECURSIVE copy_loop(_, _, _)
copy_loop(s, c, chunks) ==
    IF chunks = <<>> THEN s
    ELSE LET id == make_unique(s)
             s1 == [m |-> [s.m EXCEPT ![c] = Append(@, id)],
                    h |-> [s.h EXCEPT ![id] = s.h[Head(chunks)]]]
         IN  copy_loop(s1, c, Tail(chunks))

\* stable_vector(const stable_vector& other), constructing object c.
copy_ctor_on(s, c, other) == copy_loop(s, c, s.m[other])

\* A slip: the move leaves the handles in the source as well.
move_ctor_on_keep(s, c, other) == [s EXCEPT !.m[c] = s.m[other]]

\* stable_vector(stable_vector&& other), constructing object c.
move_ctor_on(s, c, other) ==
    [s EXCEPT !.m = [o \in Objects |->
        IF o = c THEN s.m[other] ELSE IF o = other THEN <<>> ELSE s.m[o]]]

\* A slip: swap assigns one way only.
swap_on_assign(s, c, v) == [s EXCEPT !.m[c] = s.m[v]]

\* std::swap(m_chunks, v.m_chunks)
swap_on(s, c, v) ==
    [s EXCEPT !.m = [o \in Objects |->
        IF o = c THEN s.m[v] ELSE IF o = v THEN s.m[c] ELSE s.m[o]]]

\* ~stable_vector(): every chunk the object owns is freed.
destroy_on(s, c) ==
    [m |-> [s.m EXCEPT ![c] = <<>>], h |-> Release(s.h, Range(s.m[c]))]

\* operator=(stable_vector v), after v was constructed as object Param.
assign_on(s, c) == destroy_on(swap_on(s, c, Param), Param)

----------------------------------------------------------------------------
\* The position of the element at a live address of c within the elements
\* of c taken chunk by chunk.
RECURSIVE LenBefore(_, _)
LenBefore(c, k) == IF k = 0 THEN 0 ELSE LenBefore(c, k - 1) + Len(heap[m_chunks[c][k]])
FlatPos(c, i) == LenBefore(c, i \div ChunkSize) + (i % ChunkSize) + 1

----------------------------------------------------------------------------
\* Cursors.  A cursor is its two members and its type: iterator, or
\* const_iterator when is_const.

Null == "null"      \* nullptr

\* iterator_base(container, index)
iterator_base(container, index, is_const) ==
    [m_container |-> container, m_index |-> index % Word, is_const |-> is_const]

beginOf(s, c) == iterator_base(c, 0, FALSE)

\* A slip: end() stands at the capacity.
endOf_capacity(s, c) == iterator_base(c, capacityOf(s, c), FALSE)

endOf(s, c) == iterator_base(c, sizeOf(s, c), FALSE)
cbeginOf(s, c) == iterator_base(c, 0, TRUE)
cendOf(s, c) == iterator_base(c, sizeOf(s, c), TRUE)
begin(c) == beginOf(Now, c)
end(c) == endOf(Now, c)
cbegin(c) == cbeginOf(Now, c)
cend(c) == cendOf(Now, c)

\* operator+=, operator-=, operator++, operator--: size_type arithmetic.
plus_assign(x, i) == [x EXCEPT !.m_index = (@ + i) % Word]
minus_assign(x, i) == [x EXCEPT !.m_index = (@ - i) % Word]
increment(x) == [x EXCEPT !.m_index = (@ + 1) % Word]
decrement(x) == [x EXCEPT !.m_index = (@ - 1) % Word]

\* operator*: (*m_container)[m_index], the address operator[] computes.
dereferenceOf(s, x) == IndexOf(s, x.m_container, x.m_index)
dereference(x) == dereferenceOf(Now, x)

\* A slip: operator== compares the indices only.
base_equal_index(x, y) == x.m_index = y.m_index

\* iterator_base::operator==
base_equal(x, y) == x.m_container = y.m_container /\ x.m_index = y.m_index

\* const_iterator(const iterator& it)
const_iterator_from(x) == [x EXCEPT !.is_const = TRUE]

\* l == r.  A const_iterator on the left uses its member operator==, which
\* takes a const_iterator; an iterator against a const_iterator uses the
\* friend, which evaluates r == l; two iterators use the base's operator==.
cursor_equal(l, r) ==
    IF l.is_const THEN base_equal(l, const_iterator_from(r))
    ELSE IF r.is_const THEN base_equal(r, const_iterator_from(l))
    ELSE base_equal(l, r)

\* A slip: the difference is returned as the size_type value it is computed in.
difference_unsigned(x, y) == (x.m_index - y.m_index) % Word

\* x - y: m_index - it.m_index in size_type, returned as difference_type.
difference(x, y) == ToSigned(x.m_index - y.m_index)

\* What x - y does: operator- asserts that both cursors have one container;
\* the assertion is compiled out under NDEBUG.
difference_outcomes(x, y) ==
    IF x.m_container = y.m_container
    THEN {[kind |-> "int", val |-> difference(x, y)]}
    ELSE {[kind |-> "assert_failure", val |-> 0], [kind |-> "int", val |-> difference(x, y)]}

\* x + n and x - n of the iterator helper: a copy of x, then += or -=.
plus(x, n) == plus_assign(x, n)
minus(x, n) == minus_assign(x, n)

InitHeap(n) ==
    /\ alive = [c \in Containers |-> FALSE]
    /\ m_chunks = [c \in Objects |-> <<>>]
    /\ heap = [id \in 1..n |-> <<>>]
    /\ appended = [c \in Containers |-> <<>>]
    /\ last = Call("none")
    /\ it = iterator_base(Null, 0, FALSE)
    /\ loop = [pc |-> "idle", out |-> <<>>]
    /\ stack = <<>>

Init == InitHeap(MaxChunks)

\* stable_vector() = default
DefaultCtor(c) ==
    /\ ~alive[c]
    /\ alive' = [alive EXCEPT ![c] = TRUE]
    /\ last' = Call("ctor")
    /\ UNCHANGED aux
    /\ UNCHANGED <<m_chunks, heap, appended>>

push_back(c, t) ==
    /\ alive[c]
    /\ NeedsChunk(Now, c) => CanAllocate(1)
    /\ LET s == push_back_on(Now, c, t)
       IN  m_chunks' = s.m /\ heap' = s.h
    /\ appended' = [appended EXCEPT ![c] = Append(@, t)]
    /\ last' = Call("push_back")
    /\ UNCHANGED aux
    /\ UNCHANGED alive

emplace_back(c, t) ==
    /\ alive[c]
    /\ NeedsChunk(Now, c) => CanAllocate(1)
    /\ LET s == push_back_on(Now, c, t)
       IN  m_chunks' = s.m /\ heap' = s.h
    /\ appended' = [appended EXCEPT ![c] = Append(@, t)]
    /\ last' = Call("emplace_back")
    /\ UNCHANGED aux
    /\ UNCHANGED alive

reserve(c, new_capacity) ==
    /\ alive[c]
    /\ CanAllocate(reserve_steps(ToSigned(new_capacity - capacity(c))))
    /\ LET s == reserve_on(Now, c, new_capacity)
       IN  m_chunks' = s.m /\ heap' = s.h
    /\ last' = Call("reserve")
    /\ UNCHANGED aux
    /\ UNCHANGED <<alive, appended>>

\* v[i] = t, for an index whose address holds an element.
assign_element(c, i, t) ==
    /\ alive[c]
    /\ i < size(c)
    /\ Live(Index(c, i))
    /\ heap' = [heap EXCEPT ![Index(c, i)[1]][Index(c, i)[2] + 1] = t]
    /\ appended' = [appended EXCEPT ![c][FlatPos(c, i)] = t]
    /\ last' = Call("assign_element")
    /\ UNCHANGED aux
    /\ UNCHANGED <<alive, m_chunks>>

CopyCtor(c, other) ==
    /\ ~alive[c] /\ alive[other]
    /\ CanAllocate(Len(m_chunks[other]))
    /\ LET s == copy_ctor_on(Now, c, other)
       IN  m_chunks' = s.m /\ heap' = s.h
    /\ alive' = [alive EXCEPT ![c] = TRUE]
    /\ appended' = [appended EXCEPT ![c] = appended[other]]
    /\ last' = Call("copy_ctor")
    /\ UNCHANGED aux

MoveCtor(c, other) ==
    /\ ~alive[c] /\ alive[other]
    /\ LET s == move_ctor_on(Now, c, other)
       IN  m_chunks' = s.m /\ heap' = s.h
    /\ alive' = [alive EXCEPT ![c] = TRUE]
    /\ appended' = [appended EXCEPT ![c] = appended[other], ![other] = <<>>]
    /\ last' = Call("move_ctor")
    /\ UNCHANGED aux

\* c = other
CopyAssign(c, other) ==
    /\ alive[c] /\ alive[other]
    /\ CanAllocate(Len(m_chunks[other]))
    /\ LET s == assign_on(copy_ctor_on(Now, Param, other), c)
       IN  m_chunks' = s.m /\ heap' = s.h
    /\ appended' = [appended EXCEPT ![c] = appended[other]]
    /\ last' = Call("copy_assign")
    /\ UNCHANGED aux
    /\ UNCHANGED alive

\* c = std::move(other)
MoveAssign(c, other) ==
    /\ alive[c] /\ alive[other]
    /\ LET s == assign_on(move_ctor_on(Now, Param, other), c)
       IN  m_chunks' = s.m /\ heap' = s.h
    /\ appended' = [o \in Containers |->
            IF o = c THEN appended[other] ELSE IF o = other THEN <<>> ELSE appended[o]]
    /\ last' = Call("move_assign")
    /\ UNCHANGED aux
    /\ UNCHANGED alive

\* c = {}: the parameter v of operator= is value-initialised, so it owns no
\* chunk when it is swapped with c.
AssignEmpty(c) ==
    /\ alive[c]
    /\ LET s == assign_on(Now, c)
       IN  m_chunks' = s.m /\ heap' = s.h
    /\ appended' = [appended EXCEPT ![c] = <<>>]
    /\ last' = Call("assign_empty")
    /\ UNCHANGED aux
    /\ UNCHANGED alive

swap(c, v) ==
    /\ alive[c] /\ alive[v]
    /\ LET s == swap_on(Now, c, v)
       IN  m_chunks' = s.m /\ heap' = s.h
    /\ appended' = [o \in Containers |->
            IF o = c THEN appended[v] ELSE IF o = v THEN appended[c] ELSE appended[o]]
    /\ last' = Call("swap")
    /\ UNCHANGED aux
    /\ UNCHANGED alive

Destroy(c) ==
    /\ alive[c]
    /\ LET s == destroy_on(Now, c)
       IN  m_chunks' = s.m /\ heap' = s.h
    /\ alive' = [alive EXCEPT ![c] = FALSE]
    /\ appended' = [appended EXCEPT ![c] = <<>>]
    /\ last' = Call("dtor")
    /\ UNCHANGED aux

\* A slip: the bounds check of at tests i > size().
at_result_gt(c, i) ==
    IF i > size(c)
    THEN [kind |-> "out_of_range", loc |-> <<0, 0>>]
    ELSE [kind |-> "ref", loc |-> Index(c, i)]

\* at(i): the out_of_range error, or the reference operator[](i) returns.
at_result(c, i) ==
    IF i >= size(c)
    THEN [kind |-> "out_of_range", loc |-> <<0, 0>>]
    ELSE [kind |-> "ref", loc |-> Index(c, i)]

at(c, i) ==
    /\ alive[c]
    /\ last' = [Call("at") EXCEPT !.ret = at_result(c, i)]
    /\ UNCHANGED aux
    /\ UNCHANGED <<alive, m_chunks, heap, appended>>

\* operator==: size() == c.size() && std::equal(cbegin(), cend(), c.cbegin()).
\* std::equal reads (*this)[i] and c[i] for i = 0, 1, ... up to the first
\* difference; reading an address that holds no element is undefined.
BothLive(c, v, i) == Live(Index(c, i)) /\ Live(Index(v, i))
Differ(c, v, i) == BothLive(c, v, i) /\ Deref(Index(c, i)) # Deref(Index(v, i))
EqualOutcomes(c, v) ==
    LET n == size(c)
        I == 0..(n - 1)
        bad == {i \in I : ~BothLive(c, v, i)}
        diff == {i \in I : Differ(c, v, i)}
    IN  IF n # size(v) THEN {"false"}
        ELSE IF diff # {} /\ (bad = {} \/ Min(diff) < Min(bad)) THEN {"false"}
        ELSE IF bad # {} THEN {"false", "true", "abort"}
        ELSE {"true"}

Equal(c, v) ==
    /\ alive[c] /\ alive[v]
    /\ \E r \in EqualOutcomes(c, v) :
          last' = [Call("equal") EXCEPT !.ret.kind = r]
    /\ UNCHANGED <<alive, m_chunks, heap, appended>>
    /\ UNCHANGED aux

\* Arguments of reserve: every capacity the heap can hold, and sizes whose
\* distance to the capacity does not fit difference_type.
ReserveArgs == (0..(MaxChunks * ChunkSize)) \cup {Word \div 2, Word - 1}

Next ==
    \/ \E c \in Containers : DefaultCtor(c)
    \/ \E c \in Containers, t \in Values : push_back(c, t)
    \/ \E c \in Containers, t \in Values : emplace_back(c, t)
    \/ \E c \in Containers, n \in ReserveArgs : reserve(c, n)
    \/ \E c \in Containers, t \in Values : \E i \in 0..(size(c) - 1) : assign_element(c, i, t)
    \/ \E c, d \in Containers : CopyCtor(c, d)
    \/ \E c, d \in Containers : MoveCtor(c, d)
    \/ \E c, d \in Containers : CopyAssign(c, d)
    \/ \E c, d \in Containers : MoveAssign(c, d)
    \/ \E c \in Containers : AssignEmpty(c)
    \/ \E c, d \in Containers : swap(c, d)
    \/ \E c \in Containers : Destroy(c)

Spec == Init /\ [][Next]_vars

\* The calls that only append.
NextPush ==
    \/ \E c \in Containers : DefaultCtor(c)
    \/ \E c \in Containers, t \in Values : push_back(c, t)
    \/ \E c \in Containers, t \in Values : emplace_back(c, t)

SpecPush == Init /\ [][NextPush]_vars

\* The calls that only grow a container.
NextGrow ==
    \/ \E c \in Containers : DefaultCtor(c)
    \/ \E c \in Containers, t \in Values : push_back(c, t)
    \/ \E c \in Containers, t \in Values : emplace_back(c, t)
    \/ \E c \in Containers, n \in ReserveArgs : reserve(c, n)

SpecGrow == Init /\ [][NextGrow]_vars

\* The const calls, on the containers that growth and element assignment build.
NextRead ==
    \/ \E c \in Containers : DefaultCtor(c)
    \/ \E c \in Containers, t \in Values : push_back(c, t)
    \/ \E c \in Containers, n \in ReserveArgs : reserve(c, n)
    \/ \E c \in Containers, t \in Values : \E i \in 0..(size(c) - 1) : assign_element(c, i, t)
    \/ \E c \in Containers : \E i \in 0..(size(c) + 1) : at(c, i)
    \/ \E c, d \in Containers : Equal(c, d)

SpecRead == Init /\ [][NextRead]_vars

\* The constructors that take elements.  Each is a loop of push_back or
\* emplace_back on the object under construction.

\* The chunks a container needs for n elements appended one by one.
ChunksFor(n) == (n + ChunkSize - 1) \div ChunkSize

\* T(): the value emplace_back() constructs.
DefaultValue == 0

RECURSIVE push_all(_, _, _)
push_all(s, c, xs) ==
    IF xs = <<>> THEN s ELSE push_all(push_back_on(s, c, Head(xs)), c, Tail(xs))

\* A slip: the counting loop tests i <= count.
RECURSIVE count_loop_le(_, _, _)
count_loop_le(i, count, value) ==
    IF i <= count THEN <<value>> \o count_loop_le(i + 1, count, value) ELSE <<>>

\* for (size_type i = 0; i < count; ++i): the values the loop appends.
RECURSIVE count_loop(_, _, _)
count_loop(i, count, value) ==
    IF i < count THEN <<value>> \o count_loop(i + 1, count, value) ELSE <<>>

\* The object c is constructed by appending xs.
Construct(op, c, xs) ==
    /\ ~alive[c]
    /\ CanAllocate(ChunksFor(Len(xs)))
    /\ LET s == push_all(Now, c, xs)
       IN  m_chunks' = s.m /\ heap' = s.h
    /\ alive' = [alive EXCEPT ![c] = TRUE]
    /\ appended' = [appended EXCEPT ![c] = xs]
    /\ last' = Call(op)
    /\ UNCHANGED aux

\* stable_vector(count, value), stable_vector(count),
\* stable_vector(first, last) over the range xs, stable_vector(ilist)
CountValueCtor(c, count, value) == Construct("ctor_count_value", c, count_loop(0, count, value))
CountCtor(c, count) == Construct("ctor_count", c, count_loop(0, count, DefaultValue))
RangeCtor(c, xs) == Construct("ctor_range", c, xs)
ListCtor(c, ilist) == Construct("ctor_ilist", c, ilist)

\* The arguments of the constructors: counts and sequences the heap can hold.
Counts == 0..(MaxChunks * ChunkSize)
Lists == UNION {[1..n -> Values] : n \in Counts}

NextCtor ==
    \/ \E c \in Containers, count \in Counts, value \in Values : CountValueCtor(c, count, value)
    \/ \E c \in Containers, count \in Counts : CountCtor(c, count)
    \/ \E c \in Containers, xs \in Lists : RangeCtor(c, xs)
    \/ \E c \in Containers, ilist \in Lists : ListCtor(c, ilist)
    \/ \E c \in Containers : Destroy(c)

SpecCtor == Init /\ [][NextCtor]_vars

\* front(): m_chunks.front()->front(), the address of the first slot of the
\* first chunk.  back(): m_chunks.back()->back(), the address of the slot
\* before the end of the last chunk (offset -1 when that chunk is empty).
front_address(s, c) == <<s.m[c][1], 0>>
back_address(s, c) == <<Back(s.m[c]), Len(s.h[Back(s.m[c])]) - 1>>

\* An address front() or back() returns holds a constructed element.
Holds(s, a) == a[2] >= 0 /\ LiveIn(s, a)

front(c) ==
    /\ alive[c]
    /\ Len(m_chunks[c]) > 0
    /\ last' = [Call("front") EXCEPT !.ret = [kind |-> "ref", loc |-> front_address(Now, c)]]
    /\ UNCHANGED <<alive, m_chunks, heap, appended>>
    /\ UNCHANGED aux

back(c) ==
    /\ alive[c]
    /\ Len(m_chunks[c]) > 0
    /\ last' = [Call("back") EXCEPT !.ret = [kind |-> "ref", loc |-> back_address(Now, c)]]
    /\ UNCHANGED <<alive, m_chunks, heap, appended>>
    /\ UNCHANGED aux

\* front() and back() on the containers that growth builds.
NextEnds ==
    \/ \E c \in Containers : DefaultCtor(c)
    \/ \E c \in Containers, t \in Values : push_back(c, t)
    \/ \E c \in Containers, t \in Values : emplace_back(c, t)
    \/ \E c \in Containers, n \in ReserveArgs : reserve(c, n)
    \/ \E c \in Containers : front(c)
    \/ \E c \in Containers : back(c)

SpecEnds == Init /\ [][NextEnds]_vars

\* Assignment between containers of up to two chunks that appends and reserve
\* have built, on a heap with room for two such containers.
NextAssign ==
    \/ \E c \in Containers : DefaultCtor(c)
    \/ \E c \in Containers, t \in Values :
          Len(appended[c]) <= ChunkSize /\ push_back(c, t)
    \/ \E c \in Containers, n \in 0..(2 * ChunkSize) : reserve(c, n)
    \/ \E c, d \in Containers : CopyAssign(c, d)
    \/ \E c \in Containers : AssignEmpty(c)

SpecAssign == InitHeap(MaxChunks + 1) /\ [][NextAssign]_vars

----------------------------------------------------------------------------
\* Statements on the cursor object it.

SetCursor(op, x) ==
    /\ it' = x
    /\ last' = Call(op)
    /\ UNCHANGED <<alive, m_chunks, heap, appended, loop, stack>>

\* it = c.begin(), it = c.cbegin(), it = c.end(), it = c.cend()
it_begin(c) == alive[c] /\ SetCursor("begin", begin(c))
it_cbegin(c) == alive[c] /\ SetCursor("cbegin", cbegin(c))
it_end(c) == alive[c] /\ SetCursor("end", end(c))
it_cend(c) == alive[c] /\ SetCursor("cend", cend(c))

\* it += n, it -= n, ++it, --it
it_plus_assign(n) == it.m_container # Null /\ SetCursor("operator+=", plus_assign(it, n))
it_minus_assign(n) == it.m_container # Null /\ SetCursor("operator-=", minus_assign(it, n))
it_increment == it.m_container # Null /\ SetCursor("operator++", increment(it))
it_decrement == it.m_container # Null /\ SetCursor("operator--", decrement(it))

\* *it, for a cursor of a container that exists.
it_dereference ==
    /\ it.m_container # Null
    /\ alive[it.m_container]
    /\ last' = [Call("operator*") EXCEPT !.ret = [kind |-> "ref", loc |-> dereference(it)]]
    /\ UNCHANGED <<alive, m_chunks, heap, appended, it, loop, stack>>

\* it - q and it == q, for a second cursor q.
it_difference(q) ==
    /\ \E r \in difference_outcomes(it, q) : last' = [Call("operator-") EXCEPT !.ret = r]
    /\ UNCHANGED <<alive, m_chunks, heap, appended, it, loop, stack>>

it_equal(q) ==
    /\ last' = [Call("operator==") EXCEPT
                   !.ret = [kind |-> IF cursor_equal(it, q) THEN "true" ELSE "false"]]
    /\ UNCHANGED <<alive, m_chunks, heap, appended, it, loop, stack>>

\* The cursors a container hands out.
Ends(c) == {begin(c), end(c), cbegin(c), cend(c)}
Handed == UNION {Ends(c) : c \in {d \in Containers : alive[d]}}

\* The offsets given to += and -=: size_type values, small and large.
Offsets == {1, ChunkSize, Word \div 2 - 1}

\* Cursor arithmetic and comparison, on containers of default elements of up
\* to two chunks.
NextArith ==
    \/ \E c \in Containers : DefaultCtor(c)
    \/ \E c \in Containers : size(c) <= ChunkSize /\ emplace_back(c, DefaultValue)
    \/ \E c \in Containers : it_begin(c)
    \/ \E c \in Containers : it_cbegin(c)
    \/ \E c \in Containers : it_end(c)
    \/ \E c \in Containers : it_cend(c)
    \/ \E n \in Offsets : it_plus_assign(n)
    \/ \E n \in Offsets : it_minus_assign(n)
    \/ it_increment
    \/ it_decrement
    \/ \E q \in Handed : it_difference(q)
    \/ \E q \in Handed : it_equal(q)

SpecArith == Init /\ [][NextArith]_vars

\* A cursor of a container is obtained, moved within the elements and read
\* while the container is appended to.
NextCursor ==
    \/ \E c \in Containers : DefaultCtor(c)
    \/ \E c \in Containers, t \in Values : push_back(c, t)
    \/ \E c \in Containers, t \in Values : emplace_back(c, t)
    \/ \E c \in Containers : it_begin(c)
    \/ \E c \in Containers : it_cbegin(c)
    \/ \E n \in 1..ChunkSize :
          it.m_container # Null /\ it.m_index + n < size(it.m_container) /\ it_plus_assign(n)
    \/ it.m_container # Null /\ it.m_index < size(it.m_container) /\ it_dereference

SpecCursor == Init /\ [][NextCursor]_vars

----------------------------------------------------------------------------
\* for (it = c.begin(); it != c.end(); ++it) out.push_back(*it);
\* and the same loop over cbegin() and cend().

\* The end the loop compares it with.
loop_end == IF it.is_const THEN cend(it.m_container) ELSE end(it.m_container)

\* What reading *it yields: the element, or any value where none is stored.
read(x) == IF Live(dereference(x)) THEN {Deref(dereference(x))} ELSE Values

for_init(c, is_const) ==
    /\ alive[c]
    /\ loop.pc # "run"
    /\ it' = IF is_const THEN cbegin(c) ELSE begin(c)
    /\ loop' = [pc |-> "run", out |-> <<>>]
    /\ last' = Call("for_init")
    /\ UNCHANGED <<alive, m_chunks, heap, appended, stack>>

for_body ==
    /\ loop.pc = "run"
    /\ ~cursor_equal(it, loop_end)
    /\ \E x \in read(it) : loop' = [loop EXCEPT !.out = Append(@, x)]
    /\ it' = increment(it)
    /\ last' = Call("for_body")
    /\ UNCHANGED <<alive, m_chunks, heap, appended, stack>>

for_exit ==
    /\ loop.pc = "run"
    /\ cursor_equal(it, loop_end)
    /\ loop' = [loop EXCEPT !.pc = "done"]
    /\ last' = Call("for_exit")
    /\ UNCHANGED <<alive, m_chunks, heap, appended, it, stack>>

\* Containers are built by appending; a loop, once entered, runs to its end
\* before the next append.
NextLoop ==
    \/ \E c \in Containers : loop.pc # "run" /\ DefaultCtor(c)
    \/ \E c \in Containers, t \in Values : loop.pc # "run" /\ push_back(c, t)
    \/ \E c \in Containers, is_const \in BOOLEAN : for_init(c, is_const)
    \/ for_body
    \/ for_exit

SpecLoop == Init /\ [][NextLoop]_vars /\ WF_vars(for_body) /\ WF_vars(for_exit)

----------------------------------------------------------------------------
\* Calls of front() and back(), frame by frame.  A frame is the function, the
\* overload (is_const: the one for a const object), the object, and in got
\* what the call it made has returned.

Frame(fn, is_const, self) == [fn |-> fn, is_const |-> is_const, self |-> self, got |-> <<>>]
Top == stack[Len(stack)]

\* The process has died of a call that found no room on the stack.
Crashed == last.ret.kind = "stack_overflow"

\* The overload a call of front() or back() inside the member function of
\* frame f selects: this has the constness of the member function, so the
\* const overload calls the const overload.
callee(f) == Frame(f.fn, f.is_const, f.self)

\* The mutable overloads return m_chunks.front()->front() and
\* m_chunks.back()->back(); the const overloads return what their call returned.
Ready(f) == ~f.is_const \/ f.got # <<>>
Result(f) ==
    IF f.is_const THEN f.got[1]
    ELSE IF f.fn = "front" THEN front_address(Now, f.self) ELSE back_address(Now, f.self)

\* c.front() or c.back() of client code, on a container that holds elements.
invoke(c, fn, is_const) ==
    /\ ~Crashed
    /\ stack = <<>>
    /\ alive[c] /\ appended[c] # <<>>
    /\ stack' = <<Frame(fn, is_const, c)>>
    /\ last' = Call("invoke")
    /\ UNCHANGED <<alive, m_chunks, heap, appended, it, loop>>

\* The body of a const overload makes its call: a new frame, or the end of
\* the process where the stack has no room.
enter ==
    /\ ~Crashed
    /\ stack # <<>> /\ ~Ready(Top)
    /\ IF Len(stack) < MaxStack
       THEN /\ stack' = Append(stack, callee(Top))
            /\ last' = Call("enter")
       ELSE /\ stack' = stack
            /\ last' = [Call("enter") EXCEPT !.ret.kind = "stack_overflow"]
    /\ UNCHANGED <<alive, m_chunks, heap, appended, it, loop>>

\* The same call compiled as a tail call: the frame of the callee takes the
\* place of the frame of the caller.
jump ==
    /\ ~Crashed
    /\ stack # <<>> /\ ~Ready(Top)
    /\ stack' = [stack EXCEPT ![Len(stack)] = callee(Top)]
    /\ last' = Call("jump")
    /\ UNCHANGED <<alive, m_chunks, heap, appended, it, loop>>

\* A frame returns, to the frame below it or to client code.
return ==
    /\ ~Crashed
    /\ stack # <<>> /\ Ready(Top)
    /\ IF Len(stack) = 1
       THEN /\ stack' = <<>>
            /\ last' = [op |-> IF Top.is_const THEN "return_const" ELSE "return",
                        ret |-> [kind |-> "ref", loc |-> Result(Top)]]
       ELSE /\ stack' = [SubSeq(stack, 1, Len(stack) - 1) EXCEPT
                            ![Len(stack) - 1].got = <<Result(Top)>>]
            /\ last' = Call("return_inner")
    /\ UNCHANGED <<alive, m_chunks, heap, appended, it, loop>>

\* Calls of both overloads of front() and back() on containers built by
\* appending; a call runs to its end before the next statement.
NextConst ==
    \/ \E c \in Containers : ~Crashed /\ stack = <<>> /\ DefaultCtor(c)
    \/ \E c \in Containers, t \in Values : ~Crashed /\ stack = <<>> /\ push_back(c, t)
    \/ \E c \in Containers, fn \in {"front", "back"}, is_const \in BOOLEAN : invoke(c, fn, is_const)
    \/ enter
    \/ jump
    \/ return

SpecConst == Init /\ [][NextConst]_vars /\ WF_vars(enter \/ jump) /\ WF_vars(return)

----------------------------------------------------------------------------
\* The storage after a step.
After == [m |-> m_chunks', h |-> heap']

\* The elements a container holds, chunk by chunk.
RECURSIVE FlattenUpTo(_, _, _)
FlattenUpTo(s, c, k) ==
    IF k = 0 THEN <<>> ELSE FlattenUpTo(s, c, k - 1) \o s.h[s.m[c][k]]
FlattenOf(s, c) == FlattenUpTo(s, c, Len(s.m[c]))
Flatten(c) == FlattenOf(Now, c)

\* The chunks of a container: where each is and what it holds.
View(s, c) == [k \in 1..Len(s.m[c]) |-> <<s.m[c][k], s.h[s.m[c][k]]>>]

\* The history variable agrees with the storage; handles are owned once.
HistoryOK == \A c \in Containers : appended[c] = Flatten(c)
OwnershipOK ==
    /\ m_chunks[Param] = <<>>
    /\ \A c \in Containers : Cardinality(Range(m_chunks[c])) = Len(m_chunks[c])
    /\ \A c \in Containers : ~alive[c] => m_chunks[c] = <<>>
    /\ \A id \in FreeIds(m_chunks) : heap[id] = <<>>

----------------------------------------------------------------------------
CeilDiv(x, y) == (x + y - 1) \div y
IsPrefix(s, t) == Len(s) <= Len(t) /\ \A k \in 1..Len(s) : s[k] = t[k]

\* A step is a growth call on c.
GrowthStep(c) ==
    \/ last'.op = "push_back" /\ \E t \in Values : push_back(c, t)
    \/ last'.op = "emplace_back" /\ \E t \in Values : emplace_back(c, t)
    \/ last'.op = "reserve" /\ \E n \in ReserveArgs : reserve(c, n)

\* C1. Stability: a growth call (push_back, emplace_back, reserve) on a
\* container leaves the address &v[i] of every index within its capacity as it
\* was, keeps every element at its address with its value, and leaves every
\* existing chunk in place with what it held: handles are only appended.
C1_Stability ==
    [][\A c \in Containers : GrowthStep(c) =>
        /\ IsPrefix(m_chunks[c], m_chunks'[c])
        /\ \A i \in 0..(capacity(c) - 1) :
              /\ IndexOf(After, c, i) = Index(c, i)
              /\ Live(Index(c, i)) =>
                    /\ LiveIn(After, Index(c, i))
                    /\ heap'[Index(c, i)[1]][Index(c, i)[2] + 1] = Deref(Index(c, i))
        /\ \A id \in Allocated(m_chunks) : IsPrefix(heap[id], heap'[id])]_vars

\* An element of the first chunk is still there after a push that added a
\* second chunk.
C1_Witness ==
    /\ last.op = "push_back"
    /\ \E c \in Containers :
          /\ Len(m_chunks[c]) >= 2
          /\ Live(Index(c, 0))
          /\ Len(heap[Back(m_chunks[c])]) = 1

\* C2. After exactly k appends to a default-constructed container, size() is
\* k and capacity() is ceil(k / ChunkSize) * ChunkSize (0 when k is 0); an
\* append adds a chunk only to a container with no chunk or a full last chunk.
C2_SizeCapacity ==
    /\ [](\A c \in Containers : alive[c] =>
            /\ size(c) = Len(appended[c])
            /\ capacity(c) = CeilDiv(Len(appended[c]), ChunkSize) * ChunkSize
            /\ Len(appended[c]) = 0 => empty(c) /\ capacity(c) = 0)
    /\ [][\A c \in Containers : Len(m_chunks'[c]) # Len(m_chunks[c]) =>
            /\ Len(m_chunks'[c]) = Len(m_chunks[c]) + 1
            /\ empty(c) \/ Len(heap[Back(m_chunks[c])]) = ChunkSize]_vars

\* Appends have filled one chunk and started a second.
C2_Witness ==
    /\ last.op = "emplace_back"
    /\ \E c \in Containers :
          Len(appended[c]) = ChunkSize + 1 /\ capacity(c) = 2 * ChunkSize

\* C3. After push_back, emplace_back and reserve calls in any order,
\* operator[](i) is the i-th appended element, for every i below the number
\* of appended elements.
C3_IndexIsInsertionOrder ==
    \A c \in Containers : \A i \in 0..(Len(appended[c]) - 1) :
        Live(Index(c, i)) /\ Deref(Index(c, i)) = appended[c][i + 1]

\* C4. Every chunk but the last holds ChunkSize elements; the last holds
\* between 0 and ChunkSize.
C4_ChunkIndexInvariant ==
    \A c \in Containers : \A k \in 1..Len(m_chunks[c]) :
        /\ k < Len(m_chunks[c]) => Len(heap[m_chunks[c][k]]) = ChunkSize
        /\ Len(heap[m_chunks[c][k]]) \in 0..ChunkSize

\* C5. reserve(n) leaves size() and the elements of the container as they
\* were.
C5_ReserveKeepsSize ==
    [][last'.op = "reserve" => \A c \in Containers : \A n \in ReserveArgs : reserve(c, n) =>
        /\ sizeOf(After, c) = size(c)
        /\ appended'[c] = appended[c]
        /\ \A i \in 0..(size(c) - 1) : Live(Index(c, i)) =>
              /\ IndexOf(After, c, i) = Index(c, i)
              /\ heap'[Index(c, i)[1]] = heap[Index(c, i)[1]]]_vars

\* The distance from capacity c to target t fits difference_type.
Representable(t, c) == t - c >= -(Word \div 2) /\ t - c < Word \div 2

\* C6. reserve(t) on a container of capacity c never lowers the capacity;
\* when t - c fits difference_type, it leaves the capacity at c if t <= c and
\* otherwise adds ceil((t - c) / ChunkSize) chunks, which makes the capacity
\* the least multiple of ChunkSize that is >= t.
C6_ReserveCapacity ==
    [][last'.op = "reserve" => \A c \in Containers : \A t \in ReserveArgs : reserve(c, t) =>
        /\ capacityOf(After, c) >= capacity(c)
        /\ Representable(t, capacity(c)) /\ t <= capacity(c) =>
              capacityOf(After, c) = capacity(c)
        /\ Representable(t, capacity(c)) /\ t > capacity(c) =>
              /\ capacityOf(After, c) = CeilDiv(t, ChunkSize) * ChunkSize
              /\ capacityOf(After, c) >= t
              /\ Len(m_chunks'[c]) - Len(m_chunks[c]) =
                    CeilDiv(t - capacity(c), ChunkSize)]_vars

\* A reserve has added two chunks at once to a container.
C6_Witness ==
    /\ last.op = "reserve"
    /\ \E c \in Containers :
          /\ capacity(c) >= 2 * ChunkSize
          /\ \A k \in 1..Len(m_chunks[c]) : heap[m_chunks[c][k]] = <<>>

\* C7. at(i) reports out_of_range exactly when i >= size(); otherwise it
\* returns the reference operator[](i) returns; either way the container is
\* left as it was.
C7_CheckedAccess ==
    [][last'.op = "at" => \A c \in Containers : \A i \in 0..(size(c) + 1) : at(c, i) =>
        /\ (last'.ret.kind = "out_of_range") <=> (i >= size(c))
        /\ i < size(c) => last'.ret = [kind |-> "ref", loc |-> Index(c, i)]
        /\ i >= size(c) => last'.ret.loc = <<0, 0>>
        /\ UNCHANGED <<alive, m_chunks, heap, appended>>]_vars

\* at(size()) has raised on a container that holds elements.
C7_Witness ==
    /\ last.op = "at"
    /\ last.ret.kind = "out_of_range"
    /\ \A c \in Containers : alive[c] /\ size(c) > 0 /\ Live(Index(c, size(c) - 1))

\* A step is a call that changes b and takes no other container by
\* non-const reference.
MutationOf(b) ==
    \/ last'.op = "push_back" /\ \E t \in Values : push_back(b, t)
    \/ last'.op = "emplace_back" /\ \E t \in Values : emplace_back(b, t)
    \/ last'.op = "reserve" /\ \E n \in ReserveArgs : reserve(b, n)
    \/ last'.op = "assign_element" /\
          \E t \in Values : \E i \in 0..(size(b) - 1) : assign_element(b, i, t)
    \/ last'.op = "copy_assign" /\ \E o \in Containers : CopyAssign(b, o)

CopyOf(b, a) ==
    \/ last'.op = "copy_ctor" /\ CopyCtor(b, a)
    \/ last'.op = "copy_assign" /\ CopyAssign(b, a)

\* C8. Copy independence: a copy b of a holds a's elements in chunks of its
\* own, no two containers ever share a chunk, and a call that changes one
\* container leaves the size, the capacity, the chunks and the elements of every
\* other container as they were.
C8_CopyIndependence ==
    [][\A a, b \in Containers : a # b =>
        /\ Range(m_chunks'[a]) \cap Range(m_chunks'[b]) = {}
        /\ CopyOf(b, a) =>
              /\ FlattenOf(After, b) = Flatten(a)
              /\ sizeOf(After, b) = size(a)
              /\ View(After, a) = View(Now, a)
        /\ MutationOf(b) =>
              /\ View(After, a) = View(Now, a)
              /\ sizeOf(After, a) = size(a)
              /\ capacityOf(After, a) = capacity(a)
              /\ FlattenOf(After, a) = Flatten(a)]_vars

\* A container has just been copy-constructed from one that holds elements.
C8_Witness ==
    /\ last.op = "copy_ctor"
    /\ \A c \in Containers : alive[c] /\ size(c) > 0
    /\ \E a, b \in Containers : a # b /\ Flatten(a) = Flatten(b)

\* C9. Move construction of b from a leaves a alive with no chunk (size 0,
\* capacity 0) and gives b the very chunks a had, untouched; a push_back on
\* the moved-from container then gives it size 1 and capacity ChunkSize and
\* leaves the other container as it was.
C9_MoveCtor ==
    [][\A a, b \in Containers : a # b =>
        /\ last'.op = "move_ctor" /\ MoveCtor(b, a) =>
              /\ alive'[a] /\ emptyOf(After, a)
              /\ sizeOf(After, a) = 0 /\ capacityOf(After, a) = 0
              /\ sizeOf(After, b) = size(a)
              /\ m_chunks'[b] = m_chunks[a]
              /\ heap' = heap
              /\ FlattenOf(After, b) = Flatten(a)
        /\ (/\ last.op = "move_ctor" /\ last'.op = "push_back"
            /\ empty(a)
            /\ \E t \in Values : push_back(a, t)) =>
              /\ sizeOf(After, a) = 1
              /\ capacityOf(After, a) = ChunkSize
              /\ View(After, b) = View(Now, b)]_vars

\* A container that holds elements has just been moved from.
C9_Witness ==
    /\ last.op = "move_ctor"
    /\ \E a, b \in Containers :
          /\ alive[a] /\ alive[b]
          /\ empty(a)
          /\ size(b) > ChunkSize /\ Len(appended[b]) = size(b)

\* C10. a == b is true exactly when a and b hold the same elements in the
\* same order, whatever their capacities.
C10_Equality ==
    [][last'.op = "equal" => \A a, b \in Containers : Equal(a, b) =>
        ((last'.ret.kind = "true") <=> (appended[a] = appended[b]))]_vars

----------------------------------------------------------------------------
\* A step appends to c.
AppendStep(c) ==
    \/ last'.op = "push_back" /\ \E t \in Values : push_back(c, t)
    \/ last'.op = "emplace_back" /\ \E t \in Values : emplace_back(c, t)

\* C11. A cursor is a container and a logical index.  A cursor at index
\* i < size() of a container is not changed by a push_back or emplace_back on
\* any container, and after the call it dereferences to the same address,
\* which still holds the same value, and compares equal to begin() + i; what
\* it dereferences to is the (i+1)-th value appended.
C11_CursorValidity ==
    /\ [][(/\ last'.op \in {"push_back", "emplace_back"}
           /\ it.m_container # Null
           /\ it.m_index < size(it.m_container)
           /\ \E d \in Containers : AppendStep(d)) =>
            LET c == it.m_container
                a == dereference(it)
            IN  /\ it' = it
                /\ DOMAIN it = {"m_container", "m_index", "is_const"}
                /\ dereferenceOf(After, it') = a
                /\ Live(a) /\ LiveIn(After, a)
                /\ heap'[a[1]][a[2] + 1] = Deref(a)
                /\ cursor_equal(it', plus(beginOf(After, c), it.m_index))
                /\ cursor_equal(plus(beginOf(After, c), it.m_index), it')]_vars
    /\ [][(last'.op = "operator*" /\ it_dereference) =>
            /\ last'.ret.loc = Index(it.m_container, it.m_index)
            /\ Live(last'.ret.loc)
            /\ Deref(last'.ret.loc) = appended[it.m_container][it.m_index + 1]]_vars

\* A cursor at index 1 of a container has lived through the push_back that
\* gave the container its second chunk.
C11_Witness ==
    /\ last.op = "push_back"
    /\ it.m_container # Null
    /\ it.m_index = 1
    /\ Len(m_chunks[it.m_container]) = 2
    /\ Len(heap[Back(m_chunks[it.m_container])]) = 1

----------------------------------------------------------------------------
\* C12. For a container built by appending x0..x(n-1): the loop from begin()
\* (or cbegin()) to end() (or cend()) has read x0..x(k-1) when it stands at
\* index k <= n, leaves after exactly n steps having read x0..x(n-1), and
\* does leave; *(begin() + k) is xk for k < n; begin() == end() exactly when
\* n = 0, for every pairing of the const and non-const cursors.
C12_Traversal ==
    /\ [](\A c \in Containers : alive[c] =>
            LET x == appended[c]
                n == Len(x)
            IN  /\ \A k \in 0..(n - 1) :
                      /\ Live(dereference(plus(begin(c), k)))
                      /\ Deref(dereference(plus(begin(c), k))) = x[k + 1]
                /\ \A b \in {begin(c), cbegin(c)}, e \in {end(c), cend(c)} :
                      cursor_equal(b, e) <=> (n = 0)
                /\ (loop.pc = "run" /\ it.m_container = c) =>
                      /\ it.m_index <= n
                      /\ loop.out = SubSeq(x, 1, it.m_index)
                /\ (last.op = "for_exit" /\ it.m_container = c) =>
                      /\ loop.pc = "done"
                      /\ it.m_index = n
                      /\ loop.out = x)
    /\ (loop.pc = "run") ~> (loop.pc = "done")

\* A loop over a container of two chunks has left after reading ChunkSize+1
\* elements that are not all equal.
C12_Witness ==
    /\ last.op = "for_exit"
    /\ Len(loop.out) = ChunkSize + 1
    /\ loop.out[1] # loop.out[ChunkSize + 1]
    /\ it.is_const

----------------------------------------------------------------------------
\* C13. After a = b with b another container, a == b is true, a has the
\* size and the elements of b in chunks of its own, b is as it was, and the
\* chunks a had are back on the heap; after a = a, a has the size and the
\* elements it had; after a = {}, a.empty() is true and the other container
\* is as it was.
C13_Assignment ==
    [][/\ last'.op = "copy_assign" =>
            \A a, b \in Containers : CopyAssign(a, b) =>
                IF a # b
                THEN /\ EqualOutcomes(a, b)' = {"true"}
                     /\ sizeOf(After, a) = size(b)
                     /\ FlattenOf(After, a) = Flatten(b)
                     /\ View(After, b) = View(Now, b)
                     /\ Range(m_chunks'[a]) \cap Range(m_chunks'[b]) = {}
                     /\ \A id \in Range(m_chunks[a]) :
                           id \in Range(m_chunks'[a]) \/ id \in FreeIds(m_chunks')
                     /\ Cardinality(Allocated(m_chunks')) = 2 * Len(m_chunks[b])
                ELSE /\ sizeOf(After, a) = size(a)
                     /\ FlattenOf(After, a) = Flatten(a)
       /\ last'.op = "assign_empty" =>
            \A a, b \in Containers : (a # b /\ AssignEmpty(a)) =>
                /\ emptyOf(After, a)
                /\ View(After, b) = View(Now, b)]_vars

----------------------------------------------------------------------------
\* C14. In every state, every container has size() <= capacity(), and
\* capacity() is the number of its chunks times ChunkSize; no chunk holds
\* more than ChunkSize elements.
C14_SizeWithinCapacity ==
    \A c \in Containers :
        /\ size(c) <= capacity(c)
        /\ capacity(c) = Len(m_chunks[c]) * ChunkSize
        /\ \A k \in 1..Len(m_chunks[c]) : Len(heap[m_chunks[c][k]]) <= ChunkSize

\* A push_back has filled the second chunk of a container: size() has
\* reached capacity().
C14_Witness ==
    /\ last.op = "push_back"
    /\ \E c \in Containers :
          /\ alive[c]
          /\ Len(m_chunks[c]) = 2
          /\ size(c) = capacity(c)

----------------------------------------------------------------------------
\* C15. On a container that holds an element, built by push_back,
\* emplace_back and reserve: front() returns the address of logical index 0,
\* which holds the first value appended, and back() returns the address of
\* logical index size()-1, which holds the value appended last; a push_back
\* on such a container leaves front() where it was and makes back() the
\* pushed value.
C15_FrontBack ==
    [][\A c \in Containers : appended[c] # <<>> =>
        /\ (last'.op = "front" /\ front(c)) =>
              /\ last'.ret.loc = Index(c, 0)
              /\ Holds(Now, last'.ret.loc)
              /\ Deref(last'.ret.loc) = appended[c][1]
        /\ (last'.op = "back" /\ back(c)) =>
              /\ last'.ret.loc = Index(c, size(c) - 1)
              /\ Holds(Now, last'.ret.loc)
              /\ Deref(last'.ret.loc) = appended[c][Len(appended[c])]
        /\ (last'.op = "push_back" /\ \E t \in Values : push_back(c, t)) =>
              /\ front_address(After, c) = front_address(Now, c)
              /\ Holds(After, back_address(After, c))
              /\ heap'[back_address(After, c)[1]][back_address(After, c)[2] + 1]
                    = appended'[c][Len(appended'[c])]]_vars

----------------------------------------------------------------------------
\* appending xs one by one to the default-constructed container c
RECURSIVE AppendOneByOne(_, _, _)
AppendOneByOne(s, c, xs) ==
    IF xs = <<>> THEN s
    ELSE push_back_on(AppendOneByOne(s, c, SubSeq(xs, 1, Len(xs) - 1)), c, xs[Len(xs)])

\* After the step, c is what a default-constructed container is after xs
\* was pushed one element at a time.
Built(c, xs) ==
    LET n == Len(xs)
        k == Len(m_chunks'[c])
    IN  /\ alive'[c]
        /\ sizeOf(After, c) = n
        /\ capacityOf(After, c) = CeilDiv(n, ChunkSize) * ChunkSize
        /\ \A j \in 1..k :
              Len(heap'[m_chunks'[c][j]]) =
                  IF j < k THEN ChunkSize ELSE n - (k - 1) * ChunkSize
        /\ FlattenOf(After, c) = xs
        /\ \A i \in 0..(n - 1) :
              heap'[IndexOf(After, c, i)[1]][IndexOf(After, c, i)[2] + 1] = xs[i + 1]
        /\ View(After, c) = View(AppendOneByOne(Now, c, xs), c)

\* C16. A container constructed from count copies of value, from count
\* default elements, from a range or from a list xs is in the state of a
\* default-constructed container after xs was pushed one element at a time:
\* size Len(xs), capacity ceil(Len(xs)/ChunkSize)*ChunkSize, every chunk full
\* but possibly the last, the elements xs in order; count copies of value
\* give size count with every element equal to value.
C16_Constructors ==
    [][\A c \in Containers :
        /\ last'.op = "ctor_count_value" =>
              \A count \in Counts, value \in Values :
                  CountValueCtor(c, count, value) => Built(c, [i \in 1..count |-> value])
        /\ last'.op = "ctor_count" =>
              \A count \in Counts :
                  CountCtor(c, count) => Built(c, [i \in 1..count |-> DefaultValue])
        /\ (last'.op = "ctor_range" /\ RangeCtor(c, appended'[c])) => Built(c, appended'[c])
        /\ (last'.op = "ctor_ilist" /\ ListCtor(c, appended'[c])) => Built(c, appended'[c])]_vars

\* The count and value constructor has built a container of two chunks.
C16_Witness ==
    /\ last.op = "ctor_count_value"
    /\ \E c \in Containers :
          /\ alive[c]
          /\ size(c) = ChunkSize + 1
          /\ \A i \in 0..ChunkSize : Deref(Index(c, i)) = MaxVal

----------------------------------------------------------------------------
\* Every cursor value: of a container or of none, at any index, of either type.
AllCursors ==
    {iterator_base(c, j, k) : c \in Containers \cup {Null}, j \in 0..(Word - 1), k \in BOOLEAN}

SameCursor(x, y) == x.m_container = y.m_container /\ x.m_index = y.m_index

\* C17. Two cursors, each const or not, compare equal exactly when they have
\* the same container and the same index, in either operand order; comparing
\* cursors of different containers returns false and fails no precondition.
C17_CursorEquality ==
    /\ [](\A q \in AllCursors :
            /\ cursor_equal(it, q) <=> SameCursor(it, q)
            /\ cursor_equal(q, it) <=> SameCursor(it, q))
    /\ [][last'.op = "operator==" => \A q \in Handed : it_equal(q) =>
            /\ last'.ret.kind \in {"true", "false"}
            /\ (last'.ret.kind = "true") <=> SameCursor(it, q)
            /\ it' = it]_vars

\* A cursor at index 0 of one empty container was compared with a cursor of
\* the other empty container, which is at index 0 as well: the result is false.
C17_Witness ==
    /\ last.op = "operator=="
    /\ last.ret.kind = "false"
    /\ it.m_container # Null /\ it.m_index = 0
    /\ \A c \in Containers : alive[c] /\ size(c) = 0

----------------------------------------------------------------------------
\* The values of difference_type.
DiffType == (-(Word \div 2))..(Word \div 2 - 1)

\* The step moved the cursor it by n and did nothing else.
Moved(n) ==
    /\ it'.m_container = it.m_container
    /\ it'.is_const = it.is_const
    /\ it'.m_index = (it.m_index + n) % Word
    /\ UNCHANGED <<alive, m_chunks, heap, appended>>

\* The cursor of the container of it at index j.
Sibling(j) == iterator_base(it.m_container, j, it.is_const)

\* The laws of cursor arithmetic for the cursor it of a container, with the
\* differences taken against the cursors of that container at the indices J.
ArithmeticLaws(J) ==
    /\ it.m_container # Null =>
          /\ \A n \in DiffType :
                /\ cursor_equal(minus(plus(it, n), n), it)
                /\ difference(plus(it, n), it) = n
          /\ \A j \in J :
                /\ difference(it, Sibling(j)) = it.m_index - j
                /\ difference(it, Sibling(j)) = -difference(Sibling(j), it)
    /\ \A c \in Containers : alive[c] =>
          /\ difference(cend(c), cbegin(c)) = size(c)
          /\ difference(end(c), begin(c)) = size(c)

\* +=, -=, ++ and -- move the cursor by the offset and touch nothing else.
ArithmeticSteps ==
    /\ last'.op = "operator+=" => \A n \in Offsets : it_plus_assign(n) => Moved(n)
    /\ last'.op = "operator-=" => \A n \in Offsets : it_minus_assign(n) => Moved(-n)
    /\ (last'.op = "operator++" /\ it_increment) => Moved(1)
    /\ (last'.op = "operator--" /\ it_decrement) => Moved(-1)

\* C18. +=, -=, ++ and -- change only the index of the cursor, by the offset,
\* and leave the container alone; (c + n) - n == c and (c + n) - c == n for
\* every offset n; c - d is the difference of the indices of c and d as a
\* signed number and equals -(d - c), for every cursor d of the container of
\* c; cend() - cbegin() == size().
C18_CursorArithmetic ==
    /\ [][ArithmeticSteps]_vars
    /\ [](ArithmeticLaws(0..(Word - 1)))

\* C18, amended: as above, with c - d the signed difference of the indices and
\* equal to -(d - c) for the cursors d whose index differs from the index of c
\* by less than half the range of size_type, so that both differences are
\* values of difference_type.
C18_Amended ==
    /\ [][ArithmeticSteps]_vars
    /\ [](ArithmeticLaws({j \in 0..(Word - 1) :
            Representable(it.m_index, j) /\ Representable(j, it.m_index)}))

\* The cursor of the only container was subtracted from while it stood before
\* the other operand: the difference is negative.
C18_Witness ==
    /\ last.op = "operator-"
    /\ last.ret.kind = "int" /\ last.ret.val < 0
    /\ \E c \in Containers :
          /\ alive[c] /\ it.m_container = c
          /\ \A d \in Containers \ {c} : ~alive[d]

----------------------------------------------------------------------------
\* C19. a.swap(b), which is also what swap(a, b) calls, exchanges the handle
\* lists of a and b and leaves the heap alone: a has the size, the capacity,
\* the chunks and the elements b had and b has those of a, every element is at
\* the address it was at, a second swap restores the state, and a.swap(a)
\* changes nothing.
C19_Swap ==
    [][last'.op = "swap" => \A a, b \in Containers : swap(a, b) =>
        /\ m_chunks'[a] = m_chunks[b] /\ m_chunks'[b] = m_chunks[a]
        /\ heap' = heap
        /\ \A c \in Containers \ {a, b} : m_chunks'[c] = m_chunks[c]
        /\ sizeOf(After, a) = size(b) /\ sizeOf(After, b) = size(a)
        /\ capacityOf(After, a) = capacity(b) /\ capacityOf(After, b) = capacity(a)
        /\ View(After, a) = View(Now, b) /\ View(After, b) = View(Now, a)
        /\ \A i \in 0..(capacity(b) - 1) : IndexOf(After, a, i) = Index(b, i)
        /\ \A i \in 0..(capacity(a) - 1) : IndexOf(After, b, i) = Index(a, i)
        /\ swap_on(After, a, b) = Now
        /\ a = b => (m_chunks' = m_chunks)]_vars

\* Two containers with different elements, one of two chunks, have just been
\* swapped.
C19_Witness ==
    /\ last.op = "swap"
    /\ \E a, b \in Containers :
          /\ alive[a] /\ alive[b]
          /\ Len(m_chunks[a]) = 2 /\ Len(m_chunks[b]) = 1
          /\ Flatten(a) # <<>> /\ Flatten(b) # <<>>

----------------------------------------------------------------------------
\* A call of a const overload is in progress.
InConstCall == stack # <<>> /\ stack[1].is_const

\* C20. A call of the const overload of front() or back() on a container
\* that holds elements returns: it does not exhaust the stack, it comes to an
\* end, what it returns is the address the mutable overload returns (the
\* first element, the last element), and the container is not modified
\* while it runs.
C20_ConstFrontBack ==
    /\ [](~Crashed)
    /\ [](last.op = "return_const" =>
            \E c \in Containers :
                last.ret.loc \in {front_address(Now, c), back_address(Now, c)})
    /\ [][InConstCall => UNCHANGED <<alive, m_chunks, heap, appended>>]_vars
    /\ InConstCall ~> (stack = <<>> /\ last.op = "return_const")

----------------------------------------------------------------------------
\* C21. In every state, for every container: empty() is true exactly when
\* size() is 0, and exactly when the container holds no appended element.
C21_EmptyIffSizeZero ==
    \A c \in Containers : alive[c] =>
        /\ empty(c) <=> (size(c) = 0)
        /\ empty(c) <=> (appended[c] = <<>>)
        /\ (size(c) = 0) <=> (appended[c] = <<>>)
====
